---- MODULE Spec2Model ----
(***************************************************************************)
(* Model of neurolib/models/wc_input/loadDefaultParams.py:                 *)
(*   loadDefaultParams(Cmat, Dmat, seed)  - builds the parameter store     *)
(*   computeDelayMatrix(lengthMat, signalV, segmentLength)                 *)
(* Arrays are objects on a heap, so that a copy and an alias differ.  The  *)
(* process-wide generator np.random is one shared variable.  Numbers are   *)
(* exact rationals <<num, den>> in lowest terms where a division occurs.   *)
(***************************************************************************)
EXTENDS Integers, Sequences, FiniteSets, TLC

\* ---------------------------------------------------------------- bounds
MaxN == 2        \* largest dimension of a Cmat the caller passes
MaxD == 2        \* largest dimension of a Dmat the caller passes
MaxWrites == 1   \* in-place writes of the caller per returned store
MaxDim == 2      \* largest row/column count of a lengthMat given to computeDelayMatrix
RngMod == 5      \* number of distinct states of the abstract generator

Procs == {1, 2}          \* the calls of loadDefaultParams in one process
CVals == {0, 1}          \* entries of the matrices passed to loadDefaultParams
LenVals == {-2, 0, 10}   \* entries of the matrices passed to computeDelayMatrix
SignalVs == {-3, 0, 20}
IntSeeds == {0, 1}

\* ------------------------------------------------------------- optionals
NoneMat == [isNone |-> TRUE, val |-> <<>>]
SomeMat(m) == [isNone |-> FALSE, val |-> m]
NoneNum == [isNone |-> TRUE, val |-> 0]
SomeNum(n) == [isNone |-> FALSE, val |-> n]

\* -------------------------------------------------------------- matrices
Rows(m) == Len(m)
Cols(m) == IF Len(m) = 0 THEN 0 ELSE Len(m[1])

Matrices(r, c, vals) == [1..r -> [1..c -> vals]]

SquareMatrices(maxn, vals) == UNION {Matrices(n, n, vals) : n \in 0..maxn}

\* np.zeros((r, c))
Zeros(r, c) == [i \in 1..r |-> [j \in 1..c |-> 0]]

\* fill_diagonal with the stride one short: step = a.shape[1]
FillDiagonalShortStep(a, val) ==
    LET c == Cols(a)
        end == c * c
    IN [i \in 1..Rows(a) |-> [j \in 1..c |->
          LET flat == (i - 1) * c + (j - 1)
          IN IF flat < end /\ flat % c = 0 THEN val ELSE a[i][j]]]

\* np.fill_diagonal(a, val), wrap=False: a.flat[:end:step] = val with
\* step = a.shape[1] + 1 and end = a.shape[1] * a.shape[1]
FillDiagonal(a, val) ==
    LET c == Cols(a)
        step == c + 1
        end == c * c
    IN [i \in 1..Rows(a) |-> [j \in 1..c |->
          LET flat == (i - 1) * c + (j - 1)
          IN IF flat < end /\ flat % step = 0 THEN val ELSE a[i][j]]]

\* params.Cmat.size instead of len(params.Cmat)
NodeCountSize(m) == Rows(m) * Cols(m)

\* len(params.Cmat) - 1
NodeCountOffByOne(m) == Len(m) - 1

\* len(params.Cmat)
NodeCount(m) == Len(m)

\* a[i, j] = v, in place
SetEntry(a, i, j, v) == [a EXCEPT ![i][j] = v]

\* ------------------------------------------------------------- rationals
Abs(x) == IF x < 0 THEN -x ELSE x

RECURSIVE GCD(_, _)
GCD(a, b) == IF b = 0 THEN a ELSE GCD(b, a % b)

\* n / d for d # 0, in lowest terms with a positive denominator
Rat(n, d) ==
    LET g == GCD(Abs(n), Abs(d))
        s == IF d < 0 THEN -1 ELSE 1
    IN <<(s * n) \div g, (s * d) \div g>>

RatZero == <<0, 1>>

\* 0.05 * x
Scale005(x) == Rat(5 * x[1], 100 * x[2])

\* ----------------------------------------------------------------- state
VARIABLES
    rng,         \* state of the process-wide generator np.random
    pc,          \* position of each call of loadDefaultParams
    args,        \* values of Cmat, Dmat, seed at the time of the call
    heap,        \* array objects of each call: the caller's and the new ones
    params,      \* the parameter store of each call
    writes,      \* in-place writes by the caller since the store was returned
    interfered,  \* another call used the generator between this call's reseed and its last draw
    delayArgs,   \* arguments of the last computeDelayMatrix call
    delayOut     \* its result

vars == <<rng, pc, args, heap, params, writes, interfered, delayArgs, delayOut>>

loaderVars == <<rng, pc, args, heap, params, writes, interfered>>
delayVars == <<delayArgs, delayOut>>

\* ------------------------------------------- process-wide generator state
\* The generator keeps one of RngMod states; a sample is read off the state
\* and the state advances by one step per sample.
RngStates == 0..(RngMod - 1)

\* the reseed left out: the generator keeps its state
SeedStatesKeep(seed) == {rng}

\* the seed argument not passed on: np.random.seed(0)
SeedStatesZero(seed) == IF seed.isNone THEN RngStates ELSE {0}

\* np.random.seed(seed): an integer seed fixes the state, None takes it from
\* the operating system's entropy
SeedStates(seed) == IF seed.isNone THEN RngStates ELSE {seed.val % RngMod}

NextState(st) == (st + 1) % RngMod

RECURSIVE Advance(_, _)
Advance(st, k) == IF k = 0 THEN st ELSE Advance(NextState(st), k - 1)

\* one sample of Uniform(0, 1)
Sample(st) == Rat(st, RngMod)

\* 0.05 * np.random.uniform(0, 1, (n, 1)) drawn from state st
InitVector(st, n) == [i \in 1..n |-> <<Scale005(Sample(Advance(st, i - 1)))>>]

NoArgs == [Cmat |-> NoneMat, Dmat |-> NoneMat, seed |-> NoneNum]
EmptyHeap == [argC |-> NoneMat, argD |-> NoneMat, newC |-> NoneMat, newL |-> NoneMat]
EmptyParams == [seed |-> NoneNum, N |-> 0, Cmat |-> "argC", lengthMat |-> "argD",
                exc_init |-> NoneMat, inh_init |-> NoneMat, adap_init |-> NoneMat]

\* `params.Cmat = Cmat` without the copy
CmatRefAlias == "argC"

\* the object params.Cmat refers to after `params.Cmat = Cmat.copy()`
CmatRef == "newC"

\* `params.lengthMat = Dmat` in both branches
LengthMatRefAlways(C) == "argD"

\* the object params.lengthMat refers to: a new array without Cmat, else Dmat itself
LengthMatRef(C) == IF C.isNone THEN "newL" ELSE "argD"

\* lines 36-45: the heap and the matrix fields after the if/else on Cmat
StoreMatrices(C, D) ==
    LET h0 == [EmptyHeap EXCEPT !.argC = C, !.argD = D]
    IN IF C.isNone
       THEN [heap |-> [h0 EXCEPT !.newC = SomeMat(Zeros(1, 1)),
                                 !.newL = SomeMat(Zeros(1, 1))],
             N |-> 1, Cmat |-> "newC", lengthMat |-> LengthMatRef(C)]
       ELSE LET h1 == [h0 EXCEPT !.newC = h0.argC]
                h2 == [h1 EXCEPT ![CmatRef] = SomeMat(FillDiagonal(h1[CmatRef].val, 0))]
            IN [heap |-> h2, N |-> NodeCount(h2[CmatRef].val),
                Cmat |-> CmatRef, lengthMat |-> LengthMatRef(C)]

\* the arrays the store's fields refer to
StoredCmat(p) == heap[p][params[p].Cmat]
StoredLengthMat(p) == heap[p][params[p].lengthMat]

Drawing == {"exc", "inh", "adap"}

\* calls whose draws are still to come see every use of the generator by p
Interfere(p) == [q \in Procs |-> IF q # p /\ pc[q] \in Drawing THEN TRUE ELSE interfered[q]]

Init ==
    /\ rng \in RngStates
    /\ pc = [p \in Procs |-> "idle"]
    /\ args = [p \in Procs |-> NoArgs]
    /\ heap = [p \in Procs |-> EmptyHeap]
    /\ params = [p \in Procs |-> EmptyParams]
    /\ writes = [p \in Procs |-> 0]
    /\ interfered = [p \in Procs |-> FALSE]
    /\ delayArgs = [lengthMat |-> <<>>, signalV |-> 0, segmentLength |-> NoneNum, called |-> FALSE]
    /\ delayOut = <<>>

\* lines 20-45: call p starts, reseeds the generator and stores the matrices
Begin(p, C, D, seed) ==
    /\ pc[p] = "idle"
    /\ LET m == StoreMatrices(C, D)
       IN /\ rng' \in SeedStates(seed)
          /\ heap' = [heap EXCEPT ![p] = m.heap]
          /\ params' = [params EXCEPT ![p] =
                 [EmptyParams EXCEPT !.seed = seed, !.N = m.N,
                                     !.Cmat = m.Cmat, !.lengthMat = m.lengthMat]]
    /\ args' = [args EXCEPT ![p] = [Cmat |-> C, Dmat |-> D, seed |-> seed]]
    /\ writes' = [writes EXCEPT ![p] = 0]
    /\ interfered' = [Interfere(p) EXCEPT ![p] = FALSE]
    /\ pc' = [pc EXCEPT ![p] = "exc"]
    /\ UNCHANGED delayVars

\* line 83
DrawExc(p) ==
    /\ pc[p] = "exc"
    /\ params' = [params EXCEPT ![p].exc_init = SomeMat(InitVector(rng, params[p].N))]
    /\ rng' = Advance(rng, params[p].N)
    /\ interfered' = Interfere(p)
    /\ pc' = [pc EXCEPT ![p] = "inh"]
    /\ UNCHANGED <<args, heap, writes, delayVars>>

\* line 84
DrawInh(p) ==
    /\ pc[p] = "inh"
    /\ params' = [params EXCEPT ![p].inh_init = SomeMat(InitVector(rng, params[p].N))]
    /\ rng' = Advance(rng, params[p].N)
    /\ interfered' = Interfere(p)
    /\ pc' = [pc EXCEPT ![p] = "adap"]
    /\ UNCHANGED <<args, heap, writes, delayVars>>

\* lines 87-104: the last draw, and the store is returned
DrawAdap(p) ==
    /\ pc[p] = "adap"
    /\ params' = [params EXCEPT ![p].adap_init = SomeMat(InitVector(rng, params[p].N))]
    /\ rng' = Advance(rng, params[p].N)
    /\ interfered' = Interfere(p)
    /\ pc' = [pc EXCEPT ![p] = "done"]
    /\ UNCHANGED <<args, heap, writes, delayVars>>

\* the caller writes one entry of an array it passed, in place
CallerWrite(p, which, i, j, v) ==
    /\ pc[p] = "done"
    /\ writes[p] < MaxWrites
    /\ ~heap[p][which].isNone
    /\ i \in 1..Rows(heap[p][which].val)
    /\ j \in 1..Cols(heap[p][which].val)
    /\ heap' = [heap EXCEPT ![p][which] = SomeMat(SetEntry(heap[p][which].val, i, j, v))]
    /\ writes' = [writes EXCEPT ![p] = @ + 1]
    /\ UNCHANGED <<rng, pc, args, params, interfered, delayVars>>

\* ----------------------------------------------------- computeDelayMatrix
\* the default of the parameter segmentLength
DefaultSegmentLength == 1

SegmentLengthOf(segmentLength) ==
    IF segmentLength.isNone THEN DefaultSegmentLength ELSE segmentLength.val

\* segmentLength left out of the product
NormalizedLenMatNoSegment(lengthMat, seg) ==
    [i \in 1..Rows(lengthMat) |-> [j \in 1..Cols(lengthMat) |-> lengthMat[i][j]]]

\* lengthMat * segmentLength
NormalizedLenMat(lengthMat, seg) ==
    [i \in 1..Rows(lengthMat) |-> [j \in 1..Cols(lengthMat) |-> lengthMat[i][j] * seg]]

\* `if signalV != 0`
DelayEnabledNonZero(signalV) == signalV # 0

\* the branch `if signalV > 0`
DelayEnabled(signalV) == signalV > 0

\* `Dmat = lengthMat` in the else branch, not zeroed
ZeroDelayKept(x) == Rat(x, 1)

\* an entry of lengthMat * 0.0
ZeroDelay(x) == Rat(x * 0, 1)

\* lines 117-123
computeDelayMatrix(lengthMat, signalV, segmentLength) ==
    LET normalizedLenMat == NormalizedLenMat(lengthMat, SegmentLengthOf(segmentLength))
    IN IF DelayEnabled(signalV)
       THEN [i \in 1..Rows(lengthMat) |-> [j \in 1..Cols(lengthMat) |->
                Rat(normalizedLenMat[i][j], signalV)]]
       ELSE [i \in 1..Rows(lengthMat) |-> [j \in 1..Cols(lengthMat) |->
                ZeroDelay(lengthMat[i][j])]]

ComputeDelay(lengthMat, signalV, segmentLength) ==
    /\ ~delayArgs.called
    /\ delayArgs' = [lengthMat |-> lengthMat, signalV |-> signalV,
                     segmentLength |-> segmentLength, called |-> TRUE]
    /\ delayOut' = computeDelayMatrix(lengthMat, signalV, segmentLength)
    /\ UNCHANGED loaderVars

\* ---------------------------------------------------------------- inputs
Seeds == {NoneNum} \cup {SomeNum(n) : n \in IntSeeds}
\* n x n matrix filled with v
Const(n, v) == [i \in 1..n |-> [j \in 1..n |-> v]]

\* every square Cmat up to MaxN, beside uniformly filled Dmats up to MaxD
CmatInputs == {NoneMat} \cup {SomeMat(m) : m \in SquareMatrices(MaxN, CVals)}
DmatInputs == {NoneMat} \cup {SomeMat(Const(n, v)) : n \in 0..MaxD, v \in CVals}

\* the inputs where the caller's writes or a second call come in: one matrix
\* per dimension
SmallCmats == {NoneMat} \cup {SomeMat(Const(n, 1)) : n \in 0..MaxN}
SmallDmats == {NoneMat} \cup {SomeMat(Const(n, 1)) : n \in 0..MaxD}

\* Dmat plays no part in the draws: absent or 1x1 where two calls are compared
TwoCallDmats == {NoneMat, SomeMat(Const(1, 1))}

LengthMats == {<<>>} \cup UNION {Matrices(r, c, LenVals) : r \in 1..MaxDim, c \in 1..MaxDim}
SegmentLengths == {NoneNum} \cup {SomeNum(n) : n \in {-1, 0, 1, 2}}

\* -------------------------------------------------------- specifications
\* one call on any input
Next ==
    \/ /\ pc[1] = "idle"
       /\ \E C \in CmatInputs, D \in DmatInputs, seed \in Seeds : Begin(1, C, D, seed)
    \/ DrawExc(1)
    \/ DrawInh(1)
    \/ DrawAdap(1)

Spec == Init /\ [][Next]_vars

\* one call, after which the caller writes to the arrays it passed
NextWrite ==
    \/ /\ pc[1] = "idle"
       /\ \E C \in SmallCmats, D \in SmallDmats, seed \in Seeds : Begin(1, C, D, seed)
    \/ DrawExc(1)
    \/ DrawInh(1)
    \/ DrawAdap(1)
    \/ /\ pc[1] = "done"
       /\ \E which \in {"argC", "argD"}, v \in CVals :
             \E i \in 1..Rows(heap[1][which].val), j \in 1..Cols(heap[1][which].val) :
                CallerWrite(1, which, i, j, v)

SpecWrite == Init /\ [][NextWrite]_vars

\* one call of computeDelayMatrix on any input; the generator plays no part
InitDelay == Init /\ rng = 0

NextDelay ==
    /\ ~delayArgs.called
    /\ \E lengthMat \in LengthMats, signalV \in SignalVs, segmentLength \in SegmentLengths :
           ComputeDelay(lengthMat, signalV, segmentLength)

SpecDelay == InitDelay /\ [][NextDelay]_vars

\* no other call is in progress
NoneRunning(p) == \A q \in Procs \ {p} : pc[q] \in {"idle", "done"}

\* two calls that never overlap
NextSeq ==
    \E p \in Procs :
        \/ /\ pc[p] = "idle" /\ NoneRunning(p)
           /\ \E C \in SmallCmats, D \in TwoCallDmats, seed \in Seeds : Begin(p, C, D, seed)
        \/ DrawExc(p)
        \/ DrawInh(p)
        \/ DrawAdap(p)

SpecSeq == Init /\ [][NextSeq]_vars

\* two calls, on two threads, that interleave between the generator's uses
NextConc ==
    \E p \in Procs :
        \/ /\ pc[p] = "idle"
           /\ \E C \in SmallCmats, D \in TwoCallDmats, seed \in Seeds : Begin(p, C, D, seed)
        \/ DrawExc(p)
        \/ DrawInh(p)
        \/ DrawAdap(p)

SpecConc == Init /\ [][NextConc]_vars

\* ================================================================ claims
Started(p) == pc[p] # "idle"
Returned(p) == pc[p] = "done"

SameShape(a, b) ==
    /\ Rows(a) = Rows(b)
    /\ \A i \in 1..Rows(a) : Len(a[i]) = Len(b[i])

C2_NIsRowCount ==
    \A p \in Procs : Started(p) => params[p].N = Rows(StoredCmat(p).val)

C2_Witness ==
    /\ Returned(1)
    /\ ~args[1].Cmat.isNone
    /\ Rows(StoredCmat(1).val) = 2
    /\ params[1].N = 2

\* C3 as stated: N is at least 1 for every matrix passed as Cmat, an empty one included
C3_Original ==
    \A p \in Procs : Started(p) => params[p].N >= 1

\* C3 amended: N is at least 1 when Cmat is absent or has at least one row
C3_NPositive ==
    \A p \in Procs :
        Started(p) /\ (args[p].Cmat.isNone \/ Rows(args[p].Cmat.val) >= 1) =>
            params[p].N >= 1

C3_Witness ==
    /\ Returned(1)
    /\ ~args[1].Cmat.isNone
    /\ Rows(args[1].Cmat.val) = 1
    /\ params[1].N = 1

\* C4: without a Cmat argument N is 1 and the stored Cmat and lengthMat are
\* 1x1 zero matrices, whatever Dmat and seed are
C4_NoCmatDefault ==
    \A p \in Procs :
        Started(p) /\ args[p].Cmat.isNone =>
            /\ params[p].N = 1
            /\ StoredCmat(p) = SomeMat(<<<<0>>>>)
            /\ StoredLengthMat(p) = SomeMat(<<<<0>>>>)

C4_Witness ==
    /\ Returned(1)
    /\ args[1].Cmat.isNone
    /\ args[1].Dmat = SomeMat(<<<<1>>>>)
    /\ ~args[1].seed.isNone
    /\ StoredLengthMat(1) = SomeMat(<<<<0>>>>)

\* the segment length the claims speak of: 1 when the argument is omitted
ClaimedSegment == IF delayArgs.segmentLength.isNone THEN 1 ELSE delayArgs.segmentLength.val

\* C5: for signalV > 0 the result has the shape of lengthMat and entry (i, j)
\* is lengthMat[i][j] * segmentLength / signalV, segmentLength being 1 if omitted
C5_DelayLinear ==
    delayArgs.called /\ delayArgs.signalV > 0 =>
        /\ SameShape(delayOut, delayArgs.lengthMat)
        /\ \A i \in 1..Rows(delayOut), j \in 1..Cols(delayOut) :
              /\ delayOut[i][j][2] > 0
              /\ delayOut[i][j][1] * delayArgs.signalV
                    = delayArgs.lengthMat[i][j] * ClaimedSegment * delayOut[i][j][2]

C5_Witness ==
    /\ delayArgs.called
    /\ delayArgs.lengthMat = <<<<0, 10>>, <<10, 0>>>>
    /\ delayArgs.signalV = 20
    /\ delayArgs.segmentLength.isNone
    /\ delayOut = <<<<<<0, 1>>, <<1, 2>>>>, <<<<1, 2>>, <<0, 1>>>>>>

SameArgs(p, q) ==
    /\ args[p].Cmat = args[q].Cmat
    /\ args[p].Dmat = args[q].Dmat
    /\ args[p].seed = args[q].seed

\* C8: two calls that do not interleave, with the same Cmat, Dmat and integer
\* seed, return the same exc_init, inh_init and adap_init
C8_SeedDeterminism ==
    \A p \in Procs, q \in Procs :
        Returned(p) /\ Returned(q) /\ SameArgs(p, q) /\ ~args[p].seed.isNone =>
            /\ params[p].exc_init = params[q].exc_init
            /\ params[p].inh_init = params[q].inh_init
            /\ params[p].adap_init = params[q].adap_init

C8_Witness ==
    /\ Returned(1) /\ Returned(2)
    /\ SameArgs(1, 2)
    /\ args[1].seed = SomeNum(1)
    /\ params[1].N = 2
    /\ params[2].exc_init = SomeMat(InitVector(1, 2))
    /\ params[2].exc_init # params[2].inh_init

\* what a call with an integer seed and n nodes returns when it runs alone
AloneInit(seed, n) ==
    LET st == seed % RngMod
    IN [exc_init |-> SomeMat(InitVector(st, n)),
        inh_init |-> SomeMat(InitVector(Advance(st, n), n)),
        adap_init |-> SomeMat(InitVector(Advance(st, 2 * n), n))]

DiffersFromAlone(p) ==
    LET alone == AloneInit(args[p].seed.val, params[p].N)
    IN \/ params[p].exc_init # alone.exc_init
       \/ params[p].inh_init # alone.inh_init
       \/ params[p].adap_init # alone.adap_init

\* C9: with interleaved calls a call can return initial conditions that differ
\* from those of the same call run alone (the witness), and it does so only
\* when another call used the generator between its reseed and its last draw
C9_OnlyWhenInterleaved ==
    \A p \in Procs :
        Returned(p) /\ ~args[p].seed.isNone /\ DiffersFromAlone(p) => interfered[p]

C9_Witness ==
    \E p \in Procs :
        /\ Returned(p)
        /\ ~args[p].seed.isNone
        /\ DiffersFromAlone(p)
        /\ interfered[p]

====
